---- MODULE Spec2Model ----
(***************************************************************************)
(* diffbib (src/index.js): compares two collections of bibliographic       *)
(* records with one of two strategies, "hash" (exact fingerprints) and     *)
(* "bruteforce" (nearest record under a normalized edit distance).         *)
(*                                                                         *)
(* Strings are sequences of one-character strings.  A record is a function *)
(* from the field names it has to strings.  A loaded entry is an object    *)
(* [id, f]: JavaScript pushes references into the result buckets, so the   *)
(* identity id = <<file, position>> tells two entries with equal fields    *)
(* apart, as === does.                                                     *)
(***************************************************************************)
EXTENDS Integers, Sequences, FiniteSets, TLC

VARIABLES
    argv,        \* the parsed command line: [strategy, field, origin, destiny]
    originFile,  \* what reading and parsing the origin file gives
    destinyFile, \* what reading and parsing the destiny file gives
    pc,          \* position in main()
    fields,      \* main's `fields`, the normalized field list
    originBib,   \* main's `originBib`  ([def |-> FALSE, ...] is undefined)
    destinyBib,  \* main's `destinyBib`
    status,      \* main's `status`: [def, AB, OnlyA, OnlyB]
    console      \* the lines written by console.log, abstracted to tags

vars == <<argv, originFile, destinyFile, pc, fields, originBib, destinyBib,
          status, console>>

-----------------------------------------------------------------------------
(* Bounds of the explored inputs *)

\* at most this many entries in each file of the main() specification
MainMaxLen == 2
\* at most this many entries over both collections, hash specification
HashMaxRecords == 5
\* at most this many entries over both collections, bruteforce specification
BruteMaxRecords == 4

-----------------------------------------------------------------------------
(* Strings *)

Min2(x, y) == IF x <= y THEN x ELSE y
Max2(x, y) == IF x >= y THEN x ELSE y

RECURSIVE Repeat(_, _)
Repeat(ch, n) == IF n = 0 THEN <<>> ELSE <<ch>> \o Repeat(ch, n - 1)

\* a word of n letters: n - k times "a", then k times "b"
Word(n, k) == Repeat("a", n - k) \o Repeat("b", k)

\* one row of the Levenshtein matrix from the previous one; a row is indexed
\* 1 .. Len(b) + 1, entry j + 1 being the distance to the first j letters of b
RECURSIVE LevRow(_, _, _, _)
LevRow(prev, ch, b, acc) ==
    IF Len(acc) = Len(b) + 1 THEN acc
    ELSE LET j    == Len(acc)
             cost == IF ch = b[j] THEN 0 ELSE 1
             cell == Min2(Min2(prev[j + 1] + 1, acc[j] + 1), prev[j] + cost)
         IN  LevRow(prev, ch, b, Append(acc, cell))

RECURSIVE LevRows(_, _, _, _)
LevRows(a, b, i, prev) ==
    IF i > Len(a) THEN prev[Len(b) + 1]
    ELSE LevRows(a, b, i + 1, LevRow(prev, a[i], b, <<prev[1] + 1>>))

\* the number of leading letters two strings share
RECURSIVE CommonPrefix(_, _, _)
CommonPrefix(a, b, n) ==
    IF n < Len(a) /\ n < Len(b) /\ a[n + 1] = b[n + 1]
    THEN CommonPrefix(a, b, n + 1)
    ELSE n

\* leven(left, right): the Levenshtein distance of two strings.  A shared
\* prefix adds nothing to the distance and is left out of the matrix
leven(left, right) ==
    IF left = right THEN 0
    ELSE LET n == CommonPrefix(left, right, 0)
             a == SubSeq(left, n + 1, Len(left))
             b == SubSeq(right, n + 1, Len(right))
         IN  LevRows(a, b, 1, [j \in 1..(Len(b) + 1) |-> j - 1])

\* String.prototype.toUpperCase on the field names that occur
toUpperCase(name) ==
    CASE name = "title" -> "TITLE"
      [] name = "Title" -> "TITLE"
      [] name = "key"   -> "KEY"
      [] name = "Key"   -> "KEY"
      [] OTHER          -> name

\* Array.prototype.join on a list of strings
RECURSIVE join(_, _)
join(strs, sep) ==
    IF strs = <<>> THEN <<>>
    ELSE IF Len(strs) = 1 THEN strs[1]
    ELSE strs[1] \o sep \o join(Tail(strs), sep)

-----------------------------------------------------------------------------
(* Values *)

Undefined == [def |-> FALSE, items |-> <<>>]
Array(items) == [def |-> TRUE, items |-> items]

\* el[field]: Has tells whether it is a string or undefined
Has(el, field) == field \in DOMAIN el.f
Get(el, field) == el.f[field]

\* the objects bibParse.entries creates for the entries of one file
Entries(file, recs) == [i \in 1..Len(recs) |-> [id |-> <<file, i>>, f |-> recs[i]]]

SeqsUpTo(S, n) == UNION {[1..k -> S] : k \in 0..n}

-----------------------------------------------------------------------------
(* src/index.js *)

\* const SIMILARITY_RATE = 0.3, as the fraction ThresholdNum / ThresholdDen
ThresholdNum == 3
ThresholdDen == 10

normalizeFields(fs) ==
    [i \in 1..Len(fs) |-> IF fs[i] = "key" THEN fs[i] ELSE toUpperCase(fs[i])]

\* SHA-256, hex encoded: injective on the strings that occur, so the digest
\* is represented by the string digested
hash(str) == <<"sha256">> \o str

getKey(el, fs) ==
    hash(join([i \in 1..Len(fs) |->
                  IF Has(el, fs[i]) THEN Get(el, fs[i]) ELSE <<>>],
              <<"#", "#", "#">>))

\* TablePut gone wrong: the first record of a fingerprint is kept
TablePutKeepFirst(table, key, el) ==
    IF \E i \in 1..Len(table) : table[i].key = key
    THEN table
    ELSE Append(table, [key |-> key, el |-> el])

\* TablePut gone wrong: an existing key is deleted and added anew, at the end
TablePutMoveLast(table, key, el) ==
    Append(SelectSeq(table, LAMBDA e : e.key # key),
           [key |-> key, el |-> el])

\* table[key] = el on an object whose own keys are kept in insertion order:
\* an existing key keeps its place and takes the new value
TablePut(table, key, el) ==
    IF \E i \in 1..Len(table) : table[i].key = key
    THEN [i \in 1..Len(table) |->
             IF table[i].key = key THEN [key |-> key, el |-> el] ELSE table[i]]
    ELSE Append(table, [key |-> key, el |-> el])

TableHas(table, key) == \E i \in 1..Len(table) : table[i].key = key

RECURSIVE buildLookupTableFrom(_, _, _)
buildLookupTableFrom(list, fs, table) ==
    IF list = <<>> THEN table
    ELSE buildLookupTableFrom(Tail(list), fs,
                              TablePut(table, getKey(list[1], fs), list[1]))

buildLookupTable(list, fs) == buildLookupTableFrom(list, fs, <<>>)

NewStatus == [def |-> TRUE, AB |-> <<>>, OnlyA |-> <<>>, OnlyB |-> <<>>]
Thrown == [def |-> FALSE, AB |-> <<>>, OnlyA |-> <<>>, OnlyB |-> <<>>]

\* `for (let key in listA)` from the i-th key on (lines 85-91)
RECURSIVE tableLoopA(_, _, _, _)
tableLoopA(listA, listB, i, acc) ==
    IF i > Len(listA) THEN acc
    ELSE IF TableHas(listB, listA[i].key)
    THEN tableLoopA(listA, listB, i + 1,
                    [acc EXCEPT !.AB = Append(@, listA[i].el)])
    ELSE tableLoopA(listA, listB, i + 1,
                    [acc EXCEPT !.OnlyA = Append(@, listA[i].el)])

\* tableLoopB gone wrong: === undefined written as !== undefined
RECURSIVE tableLoopBInverted(_, _, _, _)
tableLoopBInverted(listA, listB, i, acc) ==
    IF i > Len(listB) THEN acc
    ELSE IF TableHas(listA, listB[i].key)
    THEN tableLoopBInverted(listA, listB, i + 1,
                            [acc EXCEPT !.OnlyB = Append(@, listB[i].el)])
    ELSE tableLoopBInverted(listA, listB, i + 1, acc)

\* `for (let key in listB)` from the i-th key on (lines 93-97)
RECURSIVE tableLoopB(_, _, _, _)
tableLoopB(listA, listB, i, acc) ==
    IF i > Len(listB) THEN acc
    ELSE IF ~TableHas(listA, listB[i].key)
    THEN tableLoopB(listA, listB, i + 1,
                    [acc EXCEPT !.OnlyB = Append(@, listB[i].el)])
    ELSE tableLoopB(listA, listB, i + 1, acc)

\* for..of over `undefined` throws a TypeError before the first iteration
hashStrategy(fs, origBib, destBib) ==
    IF ~origBib.def \/ ~destBib.def THEN Thrown
    ELSE LET listA == buildLookupTable(origBib.items, fs)
             listB == buildLookupTable(destBib.items, fs)
         IN  tableLoopB(listA, listB, 1, tableLoopA(listA, listB, 1, NewStatus))

-----------------------------------------------------------------------------
(* bruteforce strategy *)

\* the loop state of findSmallestSimilar: `smallest` is <<>> (undefined) or
\* <<el>>, `computedLeven` maps the one field it holds to a distance, and
\* err tells that a TypeError was thrown
SearchStart == [smallest |-> <<>>, computedLeven |-> <<>>, err |-> FALSE]
SearchThrow == [smallest |-> <<>>, computedLeven |-> <<>>, err |-> TRUE]

\* x.length || 1
LengthOr1(str) == IF Len(str) = 0 THEN 1 ELSE Len(str)

\* OverThreshold gone wrong: >= for >
OverThresholdInclusive(newLeven, max) ==
    newLeven * ThresholdDen >= ThresholdNum * max

\* similarity > SIMILARITY_RATE, with similarity = newLeven / max.  The
\* division of two small integers is correctly rounded and 0.3 is the double
\* nearest to 3/10, so the comparison of doubles agrees with that of fractions
OverThreshold(newLeven, max) == newLeven * ThresholdDen > ThresholdNum * max

\* the body of `for (field of fields)` from the j-th field on, for one
\* candidate el; returning st unchanged is `break`
RECURSIVE fieldLoop(_, _, _, _, _)
fieldLoop(element, fs, el, j, st) ==
    IF j > Len(fs) THEN st
    ELSE LET field == fs[j] IN
      \* leven(undefined, ..) or undefined.length
      IF ~Has(element, field) \/ ~Has(el, field) THEN SearchThrow
      ELSE LET newLeven == leven(Get(element, field), Get(el, field))
               max == Max2(LengthOr1(Get(element, field)),
                           LengthOr1(Get(el, field)))
               adopt == [smallest |-> <<el>>,
                         computedLeven |-> (field :> newLeven),
                         err |-> FALSE]
           IN  IF OverThreshold(newLeven, max) THEN st
               ELSE IF st.smallest = <<>> THEN adopt
               ELSE LET recorded == field \in DOMAIN st.computedLeven
                                    /\ st.computedLeven[field] # 0
                        smallest == st.smallest[1]
                    IN  IF ~recorded /\ ~Has(smallest, field) THEN SearchThrow
                        ELSE LET currLeven ==
                                   IF recorded THEN st.computedLeven[field]
                                   ELSE leven(Get(element, field),
                                              Get(smallest, field))
                             IN  IF newLeven > currLeven THEN st
                                 ELSE IF currLeven > newLeven THEN adopt
                                 ELSE fieldLoop(element, fs, el, j + 1, st)

\* candidateLoop gone wrong: only the first candidate is looked at
candidateLoopFirstOnly(element, fs, list, i, st) ==
    IF i > Len(list) THEN st
    ELSE fieldLoop(element, fs, list[i], 1, st)

\* `for (let el of list)` from the i-th candidate on
RECURSIVE candidateLoop(_, _, _, _, _)
candidateLoop(element, fs, list, i, st) ==
    IF st.err \/ i > Len(list) THEN st
    ELSE candidateLoop(element, fs, list, i + 1,
                       fieldLoop(element, fs, list[i], 1, st))

\* the result: [err, smallest], smallest = <<>> for undefined
findSmallestSimilar(element, fs, list) ==
    candidateLoop(element, fs, list, 1, SearchStart)

\* origLoop gone wrong: !== undefined written as === undefined
RECURSIVE origLoopInverted(_, _, _, _, _)
origLoopInverted(fs, origBib, destBib, i, acc) ==
    IF i > Len(origBib.items) THEN acc
    ELSE IF ~destBib.def THEN Thrown
    ELSE LET el == origBib.items[i]
             similar == findSmallestSimilar(el, fs, destBib.items)
         IN  IF similar.err THEN Thrown
             ELSE IF similar.smallest = <<>>
             THEN origLoopInverted(fs, origBib, destBib, i + 1,
                                   [acc EXCEPT !.AB = Append(@, el)])
             ELSE origLoopInverted(fs, origBib, destBib, i + 1,
                                   [acc EXCEPT !.OnlyA = Append(@, el)])

\* the A-side loop from the i-th record on; acc is the status so far
RECURSIVE origLoop(_, _, _, _, _)
origLoop(fs, origBib, destBib, i, acc) ==
    IF i > Len(origBib.items) THEN acc
    ELSE IF ~destBib.def THEN Thrown
    ELSE LET el == origBib.items[i]
             similar == findSmallestSimilar(el, fs, destBib.items)
         IN  IF similar.err THEN Thrown
             ELSE IF similar.smallest # <<>>
             THEN origLoop(fs, origBib, destBib, i + 1,
                           [acc EXCEPT !.AB = Append(@, el)])
             ELSE origLoop(fs, origBib, destBib, i + 1,
                           [acc EXCEPT !.OnlyA = Append(@, el)])

\* destLoop gone wrong: a B record that finds a match is added to Common
RECURSIVE destLoopCommon(_, _, _, _, _)
destLoopCommon(fs, origBib, destBib, i, acc) ==
    IF ~acc.def \/ i > Len(destBib.items) THEN acc
    ELSE LET el == destBib.items[i]
             similar == findSmallestSimilar(el, fs, origBib.items)
         IN  IF similar.err THEN Thrown
             ELSE IF similar.smallest = <<>>
             THEN destLoopCommon(fs, origBib, destBib, i + 1,
                                 [acc EXCEPT !.OnlyB = Append(@, el)])
             ELSE destLoopCommon(fs, origBib, destBib, i + 1,
                                 [acc EXCEPT !.AB = Append(@, el)])

\* destLoop gone wrong: === undefined written as !== undefined
RECURSIVE destLoopInverted(_, _, _, _, _)
destLoopInverted(fs, origBib, destBib, i, acc) ==
    IF ~acc.def \/ i > Len(destBib.items) THEN acc
    ELSE LET el == destBib.items[i]
             similar == findSmallestSimilar(el, fs, origBib.items)
         IN  IF similar.err THEN Thrown
             ELSE IF similar.smallest # <<>>
             THEN destLoopInverted(fs, origBib, destBib, i + 1,
                                   [acc EXCEPT !.OnlyB = Append(@, el)])
             ELSE destLoopInverted(fs, origBib, destBib, i + 1, acc)

\* the B-side loop (lines 157-163)
RECURSIVE destLoop(_, _, _, _, _)
destLoop(fs, origBib, destBib, i, acc) ==
    IF ~acc.def \/ i > Len(destBib.items) THEN acc
    ELSE LET el == destBib.items[i]
             similar == findSmallestSimilar(el, fs, origBib.items)
         IN  IF similar.err THEN Thrown
             ELSE IF similar.smallest = <<>>
             THEN destLoop(fs, origBib, destBib, i + 1,
                           [acc EXCEPT !.OnlyB = Append(@, el)])
             ELSE destLoop(fs, origBib, destBib, i + 1, acc)

bruteforceStrategy(fs, origBib, destBib) ==
    IF ~origBib.def THEN Thrown
    ELSE LET afterA == origLoop(fs, origBib, destBib, 1, NewStatus)
         IN  IF ~afterA.def \/ ~destBib.def THEN Thrown
             ELSE destLoop(fs, origBib, destBib, 1, afterA)

-----------------------------------------------------------------------------
(* main() *)

\* const Strategies = {'hash': hashStrategy, 'bruteforce': bruteforceStrategy}
StrategyNames == {"hash", "bruteforce"}

Strategies(name, fs, origBib, destBib) ==
    IF name = "hash" THEN hashStrategy(fs, origBib, destBib)
    ELSE bruteforceStrategy(fs, origBib, destBib)

Unreadable == [ok |-> FALSE, entries |-> <<>>]
Parsed(recs) == [ok |-> TRUE, entries |-> recs]

\* lines 205-223: the strategy name is looked up before anything is read
UnknownStrategy ==
    /\ pc = "start"
    /\ argv.strategy \notin StrategyNames
    /\ console' = Append(console, "Unknown strategy!")
    /\ pc' = "exit"
    /\ UNCHANGED <<argv, originFile, destinyFile, fields, originBib,
                   destinyBib, status>>

\* lines 221-223, 243-245: one of the two file options is missing
NoFiles ==
    /\ pc = "start"
    /\ argv.strategy \in StrategyNames
    /\ ~(argv.origin /\ argv.destiny)
    /\ fields' = normalizeFields(argv.field)
    /\ console' = Append(console, "No origin and destiny file specified!")
    /\ pc' = "end"
    /\ UNCHANGED <<argv, originFile, destinyFile, originBib, destinyBib,
                   status>>

\* lines 221-228: up to the first await
Begin ==
    /\ pc = "start"
    /\ argv.strategy \in StrategyNames
    /\ argv.origin /\ argv.destiny
    /\ fields' = normalizeFields(argv.field)
    /\ pc' = "loadOrigin"
    /\ UNCHANGED <<argv, originFile, destinyFile, originBib, destinyBib,
                   status, console>>

\* line 228: originBib = await LoadBib(program.origin)
LoadOriginOk ==
    /\ pc = "loadOrigin"
    /\ originFile.ok
    /\ originBib' = Array(Entries("origin", originFile.entries))
    /\ pc' = "loadDestiny"
    /\ UNCHANGED <<argv, originFile, destinyFile, fields, destinyBib,
                   status, console>>

\* lines 229-231: the catch logs and main goes on, originBib still undefined
LoadOriginFail ==
    /\ pc = "loadOrigin"
    /\ ~originFile.ok
    /\ console' = Append(console, "origin file is not a valid bibtex file")
    /\ pc' = "loadDestiny"
    /\ UNCHANGED <<argv, originFile, destinyFile, fields, originBib,
                   destinyBib, status>>

\* line 234
LoadDestinyOk ==
    /\ pc = "loadDestiny"
    /\ destinyFile.ok
    /\ destinyBib' = Array(Entries("destiny", destinyFile.entries))
    /\ pc' = "strategy"
    /\ UNCHANGED <<argv, originFile, destinyFile, fields, originBib,
                   status, console>>

\* lines 235-237
LoadDestinyFail ==
    /\ pc = "loadDestiny"
    /\ ~destinyFile.ok
    /\ console' = Append(console, "destiny file is not a valid bibtex file")
    /\ pc' = "strategy"
    /\ UNCHANGED <<argv, originFile, destinyFile, fields, originBib,
                   destinyBib, status>>

\* line 239: const status = strategy(fields, originBib, destinyBib); a throw
\* leaves main's promise rejected
RunStrategy ==
    /\ pc = "strategy"
    /\ status' = Strategies(argv.strategy, fields, originBib, destinyBib)
    /\ pc' = IF status'.def THEN "print" ELSE "rejected"
    /\ UNCHANGED <<argv, originFile, destinyFile, fields, originBib,
                   destinyBib, console>>

\* line 241 and printStatus
PrintStatus ==
    /\ pc = "print"
    /\ console' = console \o
          <<"Origin entries, Destiny entries", "Common keys",
            "Only in the origin file", "Only in the destiny file">>
    /\ pc' = "end"
    /\ UNCHANGED <<argv, originFile, destinyFile, fields, originBib,
                   destinyBib, status>>

Next ==
    \/ UnknownStrategy
    \/ NoFiles
    \/ Begin
    \/ LoadOriginOk
    \/ LoadOriginFail
    \/ LoadDestinyOk
    \/ LoadDestinyFail
    \/ RunStrategy
    \/ PrintStatus

-----------------------------------------------------------------------------
(* The inputs explored *)

K1 == <<"k", "1">>
K2 == <<"k", "2">>

\* entries of the files given to main(): the third one has no title
MainRecords ==
    { ("key" :> K1 @@ "TITLE" :> Word(4, 0)),
      ("key" :> K2 @@ "TITLE" :> Word(4, 1)),
      ("key" :> K1) }

MainFiles == {Parsed(recs) : recs \in SeqsUpTo(MainRecords, MainMaxLen)}
                \cup {Unreadable}

\* --field after split(','): the default 'key,title', and 'title'
MainFieldOptions == {<<"key", "title">>, <<"title">>}

Init ==
    /\ argv \in [strategy : {"hash", "bruteforce", "fuzzy"},
                 field    : MainFieldOptions,
                 origin   : BOOLEAN,
                 destiny  : BOOLEAN]
    /\ originFile \in MainFiles
    /\ destinyFile \in MainFiles
    /\ ~argv.origin => originFile = Unreadable
    /\ ~argv.destiny => destinyFile = Unreadable
    /\ pc = "start"
    /\ fields = <<>>
    /\ originBib = Undefined
    /\ destinyBib = Undefined
    /\ status = Thrown
    /\ console = <<>>

Spec == Init /\ [][Next]_vars

-----------------------------------------------------------------------------
(* The strategies on their own: the inputs are drawn at the start and one   *)
(* step applies the strategy to them                                        *)

\* the pairs of lists over S with at most n elements in all
PairsUpTo(S, n) ==
    UNION {[1..na -> S] \X [1..nb -> S] : <<na, nb>> \in
              {q \in (0..n) \X (0..n) : q[1] + q[2] <= n}}

InitCall(fieldLists, pairs, name) ==
    /\ fields \in fieldLists
    /\ \E p \in pairs :
          /\ originFile = Parsed(p[1])
          /\ destinyFile = Parsed(p[2])
          /\ originBib = Array(Entries("origin", p[1]))
          /\ destinyBib = Array(Entries("destiny", p[2]))
    /\ argv = [strategy |-> name, field |-> fields,
               origin |-> TRUE, destiny |-> TRUE]
    /\ pc = "call"
    /\ status = NewStatus
    /\ console = <<>>

\* entries for the hash strategy: two share a title, two a key, and one has
\* an empty title where another has none
HashRecords ==
    { ("key" :> K1 @@ "TITLE" :> <<"t">>),
      ("key" :> K2 @@ "TITLE" :> <<"t">>),
      ("key" :> K1 @@ "TITLE" :> <<>>),
      ("key" :> K1) }

HashFieldLists == {<<"key", "TITLE">>, <<"TITLE">>}

InitHash ==
    InitCall(HashFieldLists, PairsUpTo(HashRecords, HashMaxRecords), "hash")

\* hashStrategy(fields, origBib, destBib)
CallHash ==
    /\ pc = "call"
    /\ status' = hashStrategy(fields, originBib, destinyBib)
    /\ pc' = "returned"
    /\ UNCHANGED <<argv, originFile, destinyFile, fields, originBib,
                   destinyBib, console>>

\* hashStrategy(fields, destBib, origBib): origin and destiny swapped
CallHashSwapped ==
    /\ pc = "call"
    /\ status' = hashStrategy(fields, destinyBib, originBib)
    /\ pc' = "returnedSwapped"
    /\ UNCHANGED <<argv, originFile, destinyFile, fields, originBib,
                   destinyBib, console>>

NextHash == CallHash \/ CallHashSwapped

SpecHash == InitHash /\ [][NextHash]_vars

\* entries for the bruteforce strategy: titles of ten letters with 0, 3 and
\* 4 letters changed, so at distances 0.1, 0.3 and 0.4 of each other, an
\* empty title, two keys at distance 0.5, and one entry without a title
BruteRecords ==
    { ("key" :> K1 @@ "TITLE" :> Word(10, 0)),
      ("key" :> K1 @@ "TITLE" :> Word(10, 3)),
      ("key" :> K2 @@ "TITLE" :> Word(10, 3)),
      ("key" :> K1 @@ "TITLE" :> Word(10, 4)),
      ("key" :> K2 @@ "TITLE" :> <<>>),
      ("key" :> K1) }

BruteFieldLists == {<<"TITLE">>, <<"TITLE", "key">>, <<"key", "TITLE">>}

InitBrute ==
    InitCall(BruteFieldLists, PairsUpTo(BruteRecords, BruteMaxRecords),
             "bruteforce")

\* bruteforceStrategy(fields, origBib, destBib)
CallBrute ==
    /\ pc = "call"
    /\ status' = bruteforceStrategy(fields, originBib, destinyBib)
    /\ pc' = "returned"
    /\ UNCHANGED <<argv, originFile, destinyFile, fields, originBib,
                   destinyBib, console>>

NextBrute == CallBrute

SpecBrute == InitBrute /\ [][NextBrute]_vars

-----------------------------------------------------------------------------
(* Vocabulary of the properties *)

Range(seq) == {seq[i] : i \in DOMAIN seq}

\* no entry occurs twice in seq
NoRepeat(seq) == \A i, j \in DOMAIN seq : seq[i] = seq[j] => i = j

\* seq lists entries of one file in the order of the file
InFileOrder(seq) ==
    \A i, j \in DOMAIN seq : i < j => seq[i].id[2] < seq[j].id[2]

\* seq is a subsequence of list: entries of list, each once, in list's order
IsSubsequence(seq, list) ==
    /\ Range(seq) \subseteq Range(list)
    /\ InFileOrder(seq)

\* the fingerprints of the entries of list
Fingerprints(list, fs) == {getKey(list[i], fs) : i \in DOMAIN list}

\* positions of the first and of the last entry of list with fingerprint k
FirstAt(list, fs, k) ==
    CHOOSE i \in DOMAIN list :
        /\ getKey(list[i], fs) = k
        /\ \A j \in DOMAIN list : getKey(list[j], fs) = k => i <= j
LastAt(list, fs, k) ==
    CHOOSE i \in DOMAIN list :
        /\ getKey(list[i], fs) = k
        /\ \A j \in DOMAIN list : getKey(list[j], fs) = k => j <= i

\* el is the last entry of list with its fingerprint
IsLastOfItsKind(el, list, fs) ==
    \A j \in DOMAIN list :
        getKey(list[j], fs) = getKey(el, fs) => list[j].id[2] <= el.id[2]

\* the entries of list that are the last with their fingerprint
Representatives(list, fs) ==
    {el \in Range(list) : IsLastOfItsKind(el, list, fs)}

\* seq lists fingerprints in the order in which list first shows them
InFirstOccurrenceOrder(seq, list, fs) ==
    \A i, j \in DOMAIN seq : i < j =>
        FirstAt(list, fs, getKey(seq[i], fs))
            < FirstAt(list, fs, getKey(seq[j], fs))

A == originBib.items
B == destinyBib.items

-----------------------------------------------------------------------------
(* Hash strategy *)

\* C1 as stated: every record of A is in exactly one of Common and
\* OnlyOrigin, every record of B whose fingerprint does not occur in A is in
\* OnlyDestiny, and |Common| + |OnlyOrigin| is the number of distinct
\* fingerprints of A.
C1_EveryRecordClassified ==
    pc = "returned" =>
        /\ \A a \in Range(A) :
              (a \in Range(status.AB)) # (a \in Range(status.OnlyA))
        /\ \A b \in Range(B) :
              getKey(b, fields) \notin Fingerprints(A, fields)
                  => b \in Range(status.OnlyB)
        /\ Len(status.AB) + Len(status.OnlyA)
              = Cardinality(Fingerprints(A, fields))

\* C1 amended: the records classified are the last record of each
\* fingerprint.  Every such record of A is in exactly one of Common and
\* OnlyOrigin, once, and nothing else is; every such record of B whose
\* fingerprint does not occur in A is in OnlyDestiny, and nothing else is;
\* |Common| + |OnlyOrigin| is the number of distinct fingerprints of A.
C1_Partition ==
    pc = "returned" =>
        /\ status.def
        /\ NoRepeat(status.AB \o status.OnlyA)
        /\ Range(status.AB) \cup Range(status.OnlyA)
              = Representatives(A, fields)
        /\ \A a \in Range(status.AB) :
              getKey(a, fields) \in Fingerprints(B, fields)
        /\ \A a \in Range(status.OnlyA) :
              getKey(a, fields) \notin Fingerprints(B, fields)
        /\ NoRepeat(status.OnlyB)
        /\ Range(status.OnlyB)
              = {b \in Representatives(B, fields) :
                    getKey(b, fields) \notin Fingerprints(A, fields)}
        /\ Len(status.AB) + Len(status.OnlyA)
              = Cardinality(Fingerprints(A, fields))

\* an A with two records of one fingerprint, one more of another, both
\* buckets of the A side filled and OnlyDestiny too
C1_Witness ==
    /\ pc = "returned"
    /\ Cardinality(Fingerprints(A, fields)) < Len(A)
    /\ status.AB # <<>>
    /\ status.OnlyA # <<>>
    /\ status.OnlyB # <<>>

\* C2: hashStrategy(fields, B, A) has the OnlyDestiny of
\* hashStrategy(fields, A, B) as its OnlyOrigin, its OnlyOrigin as its
\* OnlyDestiny, and a Common bucket of the same length.
C2_Symmetry ==
    pc = "returnedSwapped" =>
        LET direct == hashStrategy(fields, originBib, destinyBib)
        IN  /\ status.OnlyA = direct.OnlyB
            /\ status.OnlyB = direct.OnlyA
            /\ Len(status.AB) = Len(direct.AB)

\* a swapped call with all three buckets filled and a collapsed duplicate
C2_Witness ==
    /\ pc = "returnedSwapped"
    /\ status.AB # <<>>
    /\ status.OnlyA # <<>>
    /\ status.OnlyB # <<>>
    /\ Cardinality(Fingerprints(B, fields)) < Len(B)

\* C10: the lookup table of a collection has exactly one entry for each
\* fingerprint, holding the LAST record of the collection with it, at the
\* place of the fingerprint's FIRST occurrence; each bucket lists
\* fingerprints in first-occurrence order of its collection.
C10_DuplicateCollapsing ==
    pc = "returned" =>
        LET table == buildLookupTable(A, fields)
        IN  /\ {table[i].key : i \in DOMAIN table} = Fingerprints(A, fields)
            /\ \A i, j \in DOMAIN table :
                  table[i].key = table[j].key => i = j
            /\ \A i \in DOMAIN table :
                  table[i].el = A[LastAt(A, fields, table[i].key)]
            /\ \A i, j \in DOMAIN table : i < j =>
                  FirstAt(A, fields, table[i].key)
                      < FirstAt(A, fields, table[j].key)
            /\ InFirstOccurrenceOrder(status.AB, A, fields)
            /\ InFirstOccurrenceOrder(status.OnlyA, A, fields)
            /\ InFirstOccurrenceOrder(status.OnlyB, B, fields)
            /\ Range(status.AB) \cup Range(status.OnlyA)
                  = {table[i].el : i \in DOMAIN table}

\* A = [x, y, x'] with x and x' of one fingerprint: a bucket lists x', the
\* third record, before y, the second
C10_Witness ==
    /\ pc = "returned"
    /\ Len(A) = 3
    /\ getKey(A[1], fields) = getKey(A[3], fields)
    /\ getKey(A[1], fields) # getKey(A[2], fields)
    /\ status.OnlyA = <<A[3], A[2]>>

-----------------------------------------------------------------------------
(* Bruteforce strategy *)

\* every record of both collections has every compared field
AllHave ==
    \A el \in Range(A) \cup Range(B) : \A i \in DOMAIN fields :
        Has(el, fields[i])

\* the Levenshtein distance of the values of field f, and the divisor
\* max(len or 1, len or 1) of the normalized distance
Distance(a, b, f) == leven(Get(a, f), Get(b, f))
Divisor(a, b, f) == Max2(LengthOr1(Get(a, f)), LengthOr1(Get(b, f)))

\* the normalized distance is exactly 0.3, below it, above it
AtThreshold(a, b, f) ==
    Distance(a, b, f) * ThresholdDen = ThresholdNum * Divisor(a, b, f)
BelowThreshold(a, b, f) ==
    Distance(a, b, f) * ThresholdDen < ThresholdNum * Divisor(a, b, f)
AboveThreshold(a, b, f) ==
    Distance(a, b, f) * ThresholdDen > ThresholdNum * Divisor(a, b, f)

\* findSmallestSimilar(a, fields, [b]) returns b, returns undefined
Matched(a, b) ==
    findSmallestSimilar(a, fields, <<b>>) =
        [smallest |-> <<b>>,
         computedLeven |-> (fields[1] :> Distance(a, b, fields[1])),
         err |-> FALSE]
NotMatched(a, b) == findSmallestSimilar(a, fields, <<b>>) = SearchStart

\* C3 as stated: with a single compared field, two records at a normalized
\* distance of exactly 0.3 are NOT matched, and below 0.3 they are.
C3_BoundaryRejected ==
    (pc = "returned" /\ Len(fields) = 1 /\ AllHave) =>
        /\ \A a \in Range(A), b \in Range(B) :
              /\ AtThreshold(a, b, fields[1]) => NotMatched(a, b)
              /\ BelowThreshold(a, b, fields[1]) => Matched(a, b)
        /\ (Len(A) = 1 /\ Len(B) = 1 /\ AtThreshold(A[1], B[1], fields[1]))
              => status = [NewStatus EXCEPT !.OnlyA = A, !.OnlyB = B]

\* C3 amended: with a single compared field, two records at a normalized
\* distance of exactly 0.3 ARE matched, as they are below 0.3; above 0.3
\* they are not matched.
C3_BoundaryAccepted ==
    (pc = "returned" /\ Len(fields) = 1 /\ AllHave) =>
        /\ \A a \in Range(A), b \in Range(B) :
              /\ AtThreshold(a, b, fields[1]) => Matched(a, b)
              /\ BelowThreshold(a, b, fields[1]) => Matched(a, b)
              /\ AboveThreshold(a, b, fields[1]) => NotMatched(a, b)
        /\ (Len(A) = 1 /\ Len(B) = 1) =>
              IF AboveThreshold(A[1], B[1], fields[1])
              THEN status = [NewStatus EXCEPT !.OnlyA = A, !.OnlyB = B]
              ELSE status = [NewStatus EXCEPT !.AB = A]

\* one record on each side, the titles at distance 3 of 10 letters, and the
\* A record is Common
C3_Witness ==
    /\ pc = "returned"
    /\ fields = <<"TITLE">>
    /\ Len(A) = 1 /\ Len(B) = 1
    /\ AllHave
    /\ Distance(A[1], B[1], "TITLE") = 3
    /\ Divisor(A[1], B[1], "TITLE") = 10
    /\ status.AB = A
    /\ status.OnlyB = <<>>

\* a candidate passes the threshold check on the first field of the list
PassesFirst(a, b) == ~AboveThreshold(a, b, fields[1])

\* C7: findSmallestSimilar returns none iff no candidate passes the
\* threshold check on the first field; when every record has every compared
\* field, the buckets are those the first field alone gives.
C7_FirstFieldDecides ==
    (pc = "returned" /\ AllHave) =>
        /\ \A a \in Range(A) :
              (findSmallestSimilar(a, fields, B).smallest = <<>>)
                  <=> (\A b \in Range(B) : ~PassesFirst(a, b))
        /\ \A b \in Range(B) :
              (findSmallestSimilar(b, fields, A).smallest = <<>>)
                  <=> (\A a \in Range(A) : ~PassesFirst(b, a))
        /\ status.def
        /\ Range(status.AB)
              = {a \in Range(A) : \E b \in Range(B) : PassesFirst(a, b)}
        /\ Range(status.OnlyA)
              = {a \in Range(A) : \A b \in Range(B) : ~PassesFirst(a, b)}
        /\ Range(status.OnlyB)
              = {b \in Range(B) : \A a \in Range(A) : ~PassesFirst(b, a)}
        /\ status = bruteforceStrategy(<<fields[1]>>, originBib, destinyBib)

\* two compared fields: an A record is Common though the second field of
\* every B record is too far from its own, and another is OnlyOrigin though
\* a B record has its very second field
C7_Witness ==
    /\ pc = "returned"
    /\ AllHave
    /\ Len(fields) = 2
    /\ \E a \in Range(status.AB) :
          \A b \in Range(B) : AboveThreshold(a, b, fields[2])
    /\ \E a \in Range(status.OnlyA) :
          \E b \in Range(B) : Get(a, fields[2]) = Get(b, fields[2])

\* C8: when every record has every compared field, Common and OnlyOrigin
\* are disjoint subsequences of A that together hold every A record once,
\* |Common| + |OnlyOrigin| = |A|, OnlyDestiny is a subsequence of B, and no
\* B record is in Common.
C8_ASideClassification ==
    (pc = "returned" /\ AllHave) =>
        /\ status.def
        /\ IsSubsequence(status.AB, A)
        /\ IsSubsequence(status.OnlyA, A)
        /\ Range(status.AB) \cap Range(status.OnlyA) = {}
        /\ Range(status.AB) \cup Range(status.OnlyA) = Range(A)
        /\ Len(status.AB) + Len(status.OnlyA) = Len(A)
        /\ IsSubsequence(status.OnlyB, B)
        /\ Range(status.AB) \cap Range(B) = {}

\* all three buckets filled, and a B record that found a match and is in
\* no bucket
C8_Witness ==
    /\ pc = "returned"
    /\ AllHave
    /\ status.AB # <<>>
    /\ status.OnlyA # <<>>
    /\ status.OnlyB # <<>>
    /\ Len(status.OnlyB) < Len(B)

\* C9: when every record has every compared field and an A record a is
\* Common with findSmallestSimilar(a, fields, B) = b, then
\* findSmallestSimilar(b, fields, A) is not none and b is not in
\* OnlyDestiny; Common is non-empty iff some B record is absent from
\* OnlyDestiny.
C9_MutualMatch ==
    (pc = "returned" /\ AllHave) =>
        /\ \A a \in Range(status.AB) :
              LET found == findSmallestSimilar(a, fields, B)
              IN  /\ found.smallest # <<>>
                  /\ findSmallestSimilar(found.smallest[1], fields, A).smallest
                        # <<>>
                  /\ found.smallest[1] \notin Range(status.OnlyB)
        /\ (status.AB # <<>>)
              <=> (\E b \in Range(B) : b \notin Range(status.OnlyB))

\* a Common record a with nearest record b whose own nearest record is not
\* a, beside a B record that is OnlyDestiny
C9_Witness ==
    /\ pc = "returned"
    /\ AllHave
    /\ status.OnlyB # <<>>
    /\ \E a \in Range(status.AB) :
          LET b == findSmallestSimilar(a, fields, B).smallest[1]
          IN  findSmallestSimilar(b, fields, A).smallest # <<a>>

-----------------------------------------------------------------------------
(* main() *)

\* the strategy has been invoked: main is past line 239
Invoked == pc \in {"print", "rejected"} \/ (pc = "end" /\ status.def)

\* the strategy has returned a status
Returned == pc = "print" \/ (pc = "end" /\ status.def)

EmptyOrigin ==
    /\ originBib.def /\ A = <<>>
    /\ destinyBib.def /\ B # <<>>

\* list with the records of one fingerprint collapsed to one: the last of
\* them, at the place of the first
RECURSIVE CollapsedFrom(_, _, _)
CollapsedFrom(list, fs, i) ==
    IF i > Len(list) THEN <<>>
    ELSE LET k == getKey(list[i], fs)
         IN  (IF FirstAt(list, fs, k) = i
              THEN <<list[LastAt(list, fs, k)]>> ELSE <<>>)
             \o CollapsedFrom(list, fs, i + 1)

Collapsed(list, fs) == CollapsedFrom(list, fs, 1)

\* C4 as stated: with collectionA empty and collectionB non-empty, both
\* strategies return Common = [], OnlyOrigin = [], OnlyDestiny = collectionB.
C4_DestinyUnchanged ==
    EmptyOrigin =>
        /\ pc # "rejected"
        /\ Returned =>
              status = [NewStatus EXCEPT !.OnlyB = B]

\* C4 amended: both strategies return Common = [] and OnlyOrigin = [];
\* bruteforce returns OnlyDestiny = collectionB; hash returns collectionB
\* with the records of one fingerprint collapsed to the last of them, which
\* is collectionB when its fingerprints are pairwise distinct.
C4_EmptyOrigin ==
    EmptyOrigin =>
        /\ pc # "rejected"
        /\ Returned =>
              /\ status.AB = <<>>
              /\ status.OnlyA = <<>>
              /\ argv.strategy = "bruteforce" => status.OnlyB = B
              /\ argv.strategy = "hash" =>
                    status.OnlyB = Collapsed(B, fields)
              /\ Cardinality(Fingerprints(B, fields)) = Len(B)
                    => status.OnlyB = B

\* the hash strategy has run on an empty origin and a destiny with two
\* records of one fingerprint
C4_Witness ==
    /\ EmptyOrigin
    /\ Returned
    /\ argv.strategy = "hash"
    /\ Len(status.OnlyB) < Len(B)

\* C5: on loaded collections of records with string fields, some compared
\* fields missing or not, both strategies return a result and raise no
\* error.
C5_NoAlgorithmicError ==
    (originBib.def /\ destinyBib.def) => pc # "rejected"

\* C6: the strategy is invoked only after both collections have been
\* loaded; after a failed load it is never invoked and nothing is reported.
C6_LoadFailureStops ==
    Invoked => (originBib.def /\ destinyBib.def)

====
